---- MODULE Spec2Model ----
(***************************************************************************)
(* The continuation-day tracker of db_manager.py (ideas_log table:         *)
(* log_idea, get_current_day, check_for_duplication) and the logging loop  *)
(* of content_generator.generate_content_ideas that drives it.             *)
(*                                                                         *)
(* A text value is a sequence of characters (one-character strings), so    *)
(* that str.strip() and SQLite's LOWER() are computed, not assumed.  The   *)
(* two code points U+00C9 / U+00E9 (E acute, upper / lower case) stand for *)
(* the letters outside ASCII.  A niche name is spelled as one chunk        *)
(* ("MMO"), padded with " " characters where a caller pads it.             *)
(*                                                                         *)
(* The ideas_log table is the sequence of its rows in rowid order          *)
(* (AUTOINCREMENT ids only grow, so insertion order is rowid order).       *)
(*                                                                         *)
(* The accounts, sessions and teams of user_auth.py and                    *)
(* team_collaboration.py live in a second database file; their tables are  *)
(* modelled the same way, and an id the code draws with uuid4() is spelled *)
(* as the rowid of the row it names.                                       *)
(***************************************************************************)
EXTENDS Integers, Sequences, FiniteSets

\* ------------------------------------------------------------------ bounds
MaxDate == 2    \* calendar dates are 0 .. MaxDate
MaxSeq  == 2    \* continuation_day arguments are 0 .. MaxSeq

\* ------------------------------------------------------------------- text
Space == " "

RECURSIVE LStrip(_)
LStrip(s) == IF s = <<>> THEN s
             ELSE IF Head(s) = Space THEN LStrip(Tail(s)) ELSE s

RECURSIVE RStrip(_)
RStrip(s) == IF s = <<>> THEN s
             ELSE IF s[Len(s)] = Space THEN RStrip(SubSeq(s, 1, Len(s) - 1)) ELSE s

\* str.strip(): leading and trailing whitespace removed
Strip(s) == RStrip(LStrip(s))

\* `not s or not s.strip()`
IsBlank(s) == s = <<>> \/ Strip(s) = <<>>

AsciiUpper == <<"A","B","C","D","E","F","G","H","I","J","K","L","M",
                "N","O","P","Q","R","S","T","U","V","W","X","Y","Z">>
AsciiLower == <<"a","b","c","d","e","f","g","h","i","j","k","l","m",
                "n","o","p","q","r","s","t","u","v","w","x","y","z">>

\* SQLite's built-in LOWER(): only the ASCII letters are converted
SqlLowerChar(c) == IF \E i \in DOMAIN AsciiUpper : AsciiUpper[i] = c
                   THEN AsciiLower[CHOOSE i \in DOMAIN AsciiUpper : AsciiUpper[i] = c]
                   ELSE c

SqlLower(s) == [i \in DOMAIN s |-> SqlLowerChar(s[i])]

\* ----------------------------------------------------------------- schema
\* CHECK (niche IN ('MMO', 'AI/Tech', 'Faceless'))
Niches == {<<"MMO">>, <<"AI/Tech">>, <<"Faceless">>}

\* mutant: the niche is not constrained
CheckConstraintsDayOnly(row) == row.day > 0

\* CHECK (continuation_day > 0), CHECK (niche IN ...), NOT NULL columns
CheckConstraints(row) == row.day > 0 /\ row.niche \in Niches

\* ------------------------------------------------------------------ state
VARIABLES
    store,   \* the committed rows of ideas_log, in rowid order
    today,   \* the calendar date datetime.now() falls on
    call,    \* the most recent step: the call made and what it returned
    pend,    \* history: the log_idea(_, X, n+1) made on a day X had no entry yet
    snap,    \* history: the last get_current_day result since the last write
    pc,      \* concurrent callers: the statement each one is about to run
    loc,     \* concurrent log_idea callers: arguments and local variables
    lock,    \* the caller whose write transaction is open, 0 when none is
    txn,     \* the table as the open write transaction has changed it
    rd,      \* what the concurrent reader last read
    run,     \* generate_content_ideas: niche_data, session_counters, ideas left
    seen1,   \* history: niche_data of the first run completed today
    start,   \* history: get_current_day of each niche when today began
    logged,  \* history: the niches a run has logged an entry for today
    batch,   \* history: per niche, the items of the run in progress
    schema,  \* ideas_log: absent, without its generation_date column, or with it
    stats,   \* the dict get_database_stats last returned
    sessions,    \* the committed rows of user_sessions, in rowid order
    anow,        \* datetime.now() as the session functions read it, in days
    sproc,       \* create_session callers: where each one is, and its open transaction
    slock,       \* the connection holding the write lock of the users file, 0 when none
    scall,       \* the most recent user_auth call that returned, and its result
    revoked,     \* history: the sessions logged out, superseded or found expired
    login,       \* history: per username, the failed logins in a row
    lnow,        \* datetime.now() as authenticate_user reads it, in minutes
    teams,       \* the committed rows of teams
    members,     \* the committed rows of team_members
    invitations, \* the committed rows of team_invitations
    projects,    \* the committed rows of team_projects
    shared,      \* the committed rows of shared_generations
    activity,    \* the committed rows of team_activity
    tnow,        \* datetime.now() as the team functions read it, in days
    tcall        \* the most recent team_collaboration call, and its result

apiVars  == <<call, pend, snap>>
concVars == <<pc, loc, lock, txn, rd>>
runVars  == <<run, seen1, start, logged, batch>>
authVars == <<sessions, anow, sproc, slock, scall, revoked, login, lnow>>
teamVars == <<teams, members, invitations, projects, shared, activity, tnow, tcall>>
vars == <<store, today, call, pend, snap, pc, loc, lock, txn, rd,
          run, seen1, start, logged, batch, schema, stats,
          sessions, anow, sproc, slock, scall, revoked, login, lnow,
          teams, members, invitations, projects, shared, activity, tnow, tcall>>

\* generation_date of a row written before the column existed: NULL, which
\* no comparison of a WHERE clause matches
NoDate == -1

Row(t, n, d, date) == [title |-> t, niche |-> n, day |-> d, date |-> date]

\* ------------------------------------------------------------- statements
\* SELECT id, continuation_day FROM ideas_log WHERE niche = ? AND generation_date = ?
SelectToday(db, n, date) == SelectSeq(db, LAMBDA r : r.niche = n /\ r.date = date)

\* mutant: the DELETE removes nothing
DeleteTodayNothing(db, n, date) == db

\* mutant: the DELETE is not restricted to today's date
DeleteTodayAnyDate(db, n, date) == SelectSeq(db, LAMBDA r : r.niche # n)

\* DELETE FROM ideas_log WHERE niche = ? AND generation_date = ?
DeleteToday(db, n, date) == SelectSeq(db, LAMBDA r : ~(r.niche = n /\ r.date = date))

\* mutant: the row is stored with the continuation_day before the one given
InsertRowDayBefore(db, row) == Append(db, [row EXCEPT !.day = @ - 1])

\* INSERT INTO ideas_log (...) VALUES (...)
InsertRow(db, row) == Append(db, row)

\* mutant: the statements run so far stay in the table
RollbackKeeps(committed, working) == working

\* `with sqlite3.connect(DB_PATH) as conn:` left by an exception: conn.rollback()
\* discards the statements of the open transaction
Rollback(committed, working) == committed

Max(S) == CHOOSE m \in S : \A k \in S : k <= m

\* mutant: without a matching row the maximum reads as 1
HistoricalMaxFromOne(db, n, date) ==
    LET days == {db[i].day : i \in {j \in DOMAIN db : db[j].niche = n /\ db[j].date # NoDate
                                                    /\ db[j].date # date}}
    IN  IF days = {} THEN 1 ELSE Max(days)

\* SELECT MAX(continuation_day) FROM ideas_log WHERE niche = ? AND generation_date != ?
\* (None, read as 0, when no row matches)
HistoricalMax(db, n, date) ==
    LET days == {db[i].day : i \in {j \in DOMAIN db : db[j].niche = n /\ db[j].date # NoDate
                                                    /\ db[j].date # date}}
    IN  IF days = {} THEN 0 ELSE Max(days)

\* mutant: today's entry is not looked at
GetCurrentDayHistoryOnly(db, niche, date) == HistoricalMax(db, Strip(niche), date)

\* mutant: today's continuation_day is returned as it is stored
GetCurrentDayTodayAsIs(db, niche, date) ==
    LET n == Strip(niche)
        todayRows == SelectToday(db, n, date)
    IN  IF todayRows # <<>> THEN todayRows[1].day
        ELSE HistoricalMax(db, n, date)

\* get_current_day past its validation: today's row (LIMIT 1: the first in
\* rowid order, the order idx_niche_date is scanned in) minus 1, or the
\* historical maximum
GetCurrentDay(db, niche, date) ==
    LET n == Strip(niche)
        todayRows == SelectToday(db, n, date)
    IN  IF todayRows # <<>> THEN todayRows[1].day - 1
        ELSE HistoricalMax(db, n, date)

\* mutant: no title is found
CheckForDuplicationNever(db, title) == FALSE

\* SELECT COUNT(*) FROM ideas_log WHERE LOWER(title) = LOWER(?)   > 0
CheckForDuplication(db, title) ==
    \E i \in DOMAIN db : SqlLower(db[i].title) = SqlLower(Strip(title))

\* ----------------------------------------------------------------- inputs
\* titles passed to check_for_duplication
CheckTitles == {<<>>, <<" ">>, <<"a">>, <<" ", "b">>, <<"U+00E9">>}
\* niche arguments: empty, blank, recognized, recognized and padded, unrecognized
NicheInputs == {<<>>, <<" ">>, <<"MMO">>, <<" ", "MMO">>, <<"Other">>}

\* log_idea arguments that pass its validation: a padded ASCII title on every
\* day number, a title outside ASCII, a padded niche, and a niche the CHECK
\* constraint rejects
ValidArgs == {<< <<"A", " ">>, <<"MMO">>, d >> : d \in 1 .. MaxSeq}
             \cup {<< <<"U+00C9">>, <<"MMO">>, 1 >>,
                   << <<"A", " ">>, <<" ", "MMO">>, 1 >>,
                   << <<"A", " ">>, <<"Other">>, 1 >>}
\* log_idea arguments its validation rejects: one bad argument each, and all bad
InvalidArgs == {<< <<>>, <<"MMO">>, 1 >>, << <<" ">>, <<"MMO">>, 1 >>,
                << <<"A", " ">>, <<>>, 1 >>, << <<"A", " ">>, <<" ">>, 1 >>,
                << <<"A", " ">>, <<"MMO">>, 0 >>, << <<>>, <<" ">>, 0 >>}
LogIdeaArgs == ValidArgs \cup InvalidArgs

\* get_current_day and check_for_duplication arguments, with whether the
\* database fails under the call
GetCurrentDayArgs == {<<n, FALSE>> : n \in NicheInputs} \cup {<< <<"MMO">>, TRUE >>}
CheckArgs == {<<t, FALSE>> : t \in CheckTitles} \cup {<< <<"a">>, TRUE >>}

\* where a storage operation of log_idea can fail: opening the database or
\* the SELECT ("connect"), the DELETE, the INSERT, the commit
Faults == {"none", "connect", "delete", "insert", "commit"}

\* what a step leaves to observe: the call and its arguments, the exception
\* raised ("none" when it returned), the value returned (val: a day number,
\* flag: a boolean), whether the database was opened, and how many rows of
\* today the DELETE of log_idea removed ("Overwriting N existing ideas"), and
\* the statement of log_idea the database failed at ("none" when at none)
Call(op, t, n, d, exc, val, flag, touched, overwrote, fault) ==
    [op |-> op, title |-> t, niche |-> n, day |-> d,
     exc |-> exc, val |-> val, flag |-> flag, touched |-> touched,
     overwrote |-> overwrote, fault |-> fault]

NoCall == Call("none", <<>>, <<>>, 0, "none", 0, FALSE, FALSE, 0, "none")

\* --------------------------------------------------------------- histories
Pend(n, k, date) == [niche |-> n, n |-> k, date |-> date]
NoPend == Pend(<<>>, 0, 0)

Snap(n, v, again) == [niche |-> n, val |-> v, again |-> again]
NoSnap == Snap(<<>>, 0, FALSE)

\* the largest continuation_day stored for niche n, 0 when it has no row
MaxStored(db, n) ==
    LET days == {db[i].day : i \in {j \in DOMAIN db : db[j].niche = n}}
    IN  IF days = {} THEN 0 ELSE Max(days)

\* pend after a successful log_idea(_, n, day) on `date`, made from table db
PendAfterLog(db, n, day, date) ==
    IF SelectToday(db, n, date) = <<>> /\ day = MaxStored(db, n) + 1
    THEN Pend(n, day - 1, date)
    ELSE IF pend.niche = n THEN NoPend ELSE pend

\* ---------------------------------------------------------------- log_idea
\* mutant: the continuation_day is not validated
LogIdeaInvalidNoDay(title, niche, day) == IsBlank(title) \/ IsBlank(niche)

\* the arguments log_idea rejects before it opens the database
LogIdeaInvalid(title, niche, day) == IsBlank(title) \/ IsBlank(niche) \/ day < 1

\* the table as the open transaction of log_idea sees it when `fault` strikes
\* (or when the INSERT violates a CHECK constraint), whether it got through,
\* and how many rows its DELETE removed
LogIdeaTxn(db, title, niche, day, date, fault) ==
    LET n == Strip(niche)
        row == Row(Strip(title), n, day, date)
        existing == SelectToday(db, n, date)
        afterDelete == IF existing # <<>> THEN DeleteToday(db, n, date) ELSE db
        afterInsert == InsertRow(afterDelete, row)
    IN  IF fault \in {"connect", "delete"}
        THEN [ok |-> FALSE, working |-> db, overwrote |-> 0]
        ELSE IF fault = "insert" \/ ~CheckConstraints(row)
        THEN [ok |-> FALSE, working |-> afterDelete, overwrote |-> Len(existing)]
        ELSE IF fault = "commit"
        THEN [ok |-> FALSE, working |-> afterInsert, overwrote |-> Len(existing)]
        ELSE [ok |-> TRUE, working |-> afterInsert, overwrote |-> Len(existing)]

\* mutant: every statement is committed as it runs
LogIdeaStoreNoTxn(db, title, niche, day, date, fault) ==
    LogIdeaTxn(db, title, niche, day, date, fault).working

\* the committed table after log_idea, validation passed
LogIdeaStore(db, title, niche, day, date, fault) ==
    LET out == LogIdeaTxn(db, title, niche, day, date, fault)
    IN  IF out.ok THEN out.working ELSE Rollback(db, out.working)

\* mutant: a failure of the database leaves log_idea as the exception raised
LogIdeaReturnRaises(ok) ==
    [exc |-> IF ok THEN "none" ELSE "sqlite3.Error", flag |-> ok]

\* how log_idea ends once its validation passed: return True, or, from both
\* except clauses, return False
LogIdeaReturn(ok) == [exc |-> "none", flag |-> ok]

LogIdea(title, niche, day, fault) ==
    IF LogIdeaInvalid(title, niche, day)
    THEN /\ fault = "none"
         /\ call' = Call("log_idea", title, niche, day, "ValueError", 0, FALSE, FALSE, 0, "none")
         /\ UNCHANGED <<store, today, pend, snap>>
    ELSE LET out == LogIdeaTxn(store, title, niche, day, today, fault)
         IN  \* the DELETE runs (and can fail) only when today's rows exist
             /\ fault = "delete" => SelectToday(store, Strip(niche), today) # <<>>
             /\ store' = LogIdeaStore(store, title, niche, day, today, fault)
             /\ call' = Call("log_idea", title, niche, day, LogIdeaReturn(out.ok).exc, 0,
                             LogIdeaReturn(out.ok).flag, TRUE, out.overwrote, fault)
             /\ pend' = IF out.ok THEN PendAfterLog(store, Strip(niche), day, today) ELSE pend
             /\ snap' = IF out.ok THEN NoSnap ELSE snap
             /\ UNCHANGED today

\* ------------------------------------------------------------------ reads
\* mutant: the connection of a read leaves an empty table behind
AfterSelectsEmpty(db) == <<>>

\* the table once a connection that ran SELECT statements only has left its
\* `with` block: nothing was written, the commit has nothing to store
AfterSelects(db) == db

\* mutant: the exception is swallowed and the call returns its default
PropagateSwallowed(failed) == "none"

\* `except sqlite3.Error: ... raise` of get_current_day and
\* check_for_duplication: how the call ends when the database failed under it
Propagate(failed) == IF failed THEN "sqlite3.Error" ELSE "none"

\* --------------------------------------------------------- get_current_day
\* mutant: only the empty string is rejected
GetCurrentDayInvalidOnlyEmpty(niche) == niche = <<>>

\* the argument get_current_day rejects before it opens the database
GetCurrentDayInvalid(niche) == IsBlank(niche)

GetCurrentDayCall(niche, fails) ==
    /\ IF GetCurrentDayInvalid(niche)
       THEN /\ ~fails
            /\ call' = Call("get_current_day", <<>>, niche, 0, "ValueError", 0, FALSE, FALSE, 0, "none")
            /\ UNCHANGED snap
       ELSE IF fails
       THEN /\ call' = Call("get_current_day", <<>>, niche, 0, Propagate(TRUE), 0, FALSE, TRUE, 0,
                            "connect")
            /\ UNCHANGED snap
       ELSE /\ call' = Call("get_current_day", <<>>, niche, 0, "none",
                            GetCurrentDay(store, niche, today), FALSE, TRUE, 0, "none")
            /\ snap' = IF Strip(niche) \in Niches
                       THEN Snap(Strip(niche), GetCurrentDay(store, niche, today),
                                 snap.niche = Strip(niche))
                       ELSE snap
    /\ store' = IF GetCurrentDayInvalid(niche) \/ fails THEN store ELSE AfterSelects(store)
    /\ UNCHANGED <<today, pend>>

\* --------------------------------------------------- check_for_duplication
CheckForDuplicationCall(title, fails) ==
    /\ IF IsBlank(title)
       THEN /\ ~fails
            /\ call' = Call("check_for_duplication", title, <<>>, 0, "ValueError", 0, FALSE, FALSE, 0, "none")
       ELSE IF fails
       THEN call' = Call("check_for_duplication", title, <<>>, 0, Propagate(TRUE), 0, FALSE, TRUE, 0,
                         "connect")
       ELSE call' = Call("check_for_duplication", title, <<>>, 0, "none", 0,
                         CheckForDuplication(store, title), TRUE, 0, "none")
    /\ store' = IF IsBlank(title) \/ fails THEN store ELSE AfterSelects(store)
    /\ UNCHANGED <<today, pend, snap>>

\* ------------------------------------------------------ get_database_stats
\* the dict returned: total_ideas, and niche_breakdown as the set of its
\* (niche, count, max_day) rows; {} is the dict with total -1
Stats(total, breakdown) == [total |-> total, breakdown |-> breakdown]
NoStats == Stats(-1, {})

\* the rows of one niche
OfNiche(db, n) == SelectSeq(db, LAMBDA r : r.niche = n)

\* mutant: every category is reported, also one without a row
GetDatabaseStatsEveryNiche(db) ==
    Stats(Len(db), {<<n, Len(OfNiche(db, n)), MaxStored(db, n)>> : n \in Niches})

\* SELECT COUNT(*); SELECT niche, COUNT(*), MAX(continuation_day) GROUP BY niche
GetDatabaseStats(db) ==
    Stats(Len(db),
          {<<n, Len(OfNiche(db, n)), MaxStored(db, n)>> : n \in {db[i].niche : i \in DOMAIN db}})

\* get_database_stats: the dict, or {} from `except sqlite3.Error`
GetDatabaseStatsCall(fails) ==
    /\ stats' = IF fails THEN NoStats ELSE GetDatabaseStats(store)
    /\ call' = Call("get_database_stats", <<>>, <<>>, 0, "none", 0, FALSE, TRUE, 0,
                    IF fails THEN "connect" ELSE "none")
    /\ store' = IF fails THEN store ELSE AfterSelects(store)
    /\ UNCHANGED <<today, pend, snap>>

\* ---------------------------------------------------------- setup_database
MaxLegacy == 2    \* rows of a table created before generation_date existed

\* rows such a table can hold: nothing checks them but NOT NULL
LegacyRows == {Row(<<"A">>, <<"MMO">>, 1, NoDate), Row(<<"b">>, <<"Other">>, MaxSeq, NoDate)}
LegacyStores == UNION {[1 .. k -> LegacyRows] : k \in 0 .. MaxLegacy}

\* where setup_database can fail: opening the database (or the permission
\* test before it), the UPDATE of the migration, the commit
SetupFaults == {"none", "connect", "update", "commit"}

\* mutant: the rows without a generation_date are dropped
BackfillDated(db, date) == SelectSeq(db, LAMBDA r : r.date # NoDate)

\* UPDATE ideas_log SET generation_date = ? WHERE generation_date IS NULL
Backfill(db, date) ==
    [i \in DOMAIN db |-> IF db[i].date = NoDate THEN [db[i] EXCEPT !.date = date] ELSE db[i]]

\* CREATE TABLE IF NOT EXISTS; ALTER TABLE ADD COLUMN when the table has no
\* generation_date, then the backfill; the indexes; commit.  The sqlite3
\* module opens a transaction before the UPDATE only: the CREATE and the
\* ALTER stay when a later statement fails, the UPDATE is rolled back.
SetupDatabase(fault) ==
    /\ fault = "update" => schema = "legacy"
    /\ IF fault = "connect"
       THEN UNCHANGED <<store, schema, stats>>
       ELSE /\ schema' = "current"
            /\ store' = IF schema # "legacy" THEN store
                        ELSE IF fault = "none" THEN Backfill(store, today)
                        ELSE Rollback(store, Backfill(store, today))
    /\ call' = Call("setup_database", <<>>, <<>>, 0,
                    IF fault = "none" THEN "none" ELSE "sqlite3.Error",
                    0, FALSE, TRUE, 0, fault)
    /\ UNCHANGED <<today, pend, snap>>

\* ------------------------------------------------------------------- clock
\* datetime.now() passes midnight
Midnight ==
    /\ today < MaxDate
    /\ today' = today + 1
    /\ call' = Call("midnight", <<>>, <<>>, 0, "none", 0, FALSE, FALSE, 0, "none")
    /\ snap' = NoSnap
    /\ UNCHANGED <<store, pend>>


\* ------------------------------------------------- concurrent connections
\* Every call opens a connection of its own (sqlite3.connect(DB_PATH)).  The
\* sqlite3 module runs a SELECT outside a transaction and opens one before
\* the first DELETE or INSERT; SQLite lets one connection write at a time,
\* and shows the others the committed table until the writer commits.
ConcDates == 1    \* the concurrent callers run on the dates 0 .. ConcDates

Writers == {1, 2}
Reader  == 3
Callers == Writers \cup {Reader}

\* the log_idea call each writer makes, again and again
ConcArgs(p) == IF p = 1 THEN {<< <<"A", " ">>, <<"MMO">>, 1 >>}
                        ELSE {<< <<"U+00C9">>, <<" ", "MMO">>, 2 >>}
ReaderNiches == {<<"MMO">>}

Locals(t, n, d, date, existing, ret) ==
    [title |-> t, niche |-> n, day |-> d, date |-> date, existing |-> existing, ret |-> ret]
NoLocals == Locals(<<>>, <<>>, 0, 0, 0, "-")

Read(n, date, max, seen, val, during) ==
    [niche |-> n, date |-> date, max |-> max, seen |-> seen, val |-> val, during |-> during]
NoRead == Read(<<>>, 0, 0, 0, 0, FALSE)

\* mutant: a reader sees the statements of the open write transaction
ReadViewDirty(committed, working, holder) == IF holder = 0 THEN committed ELSE working

\* the table a connection that is not writing reads: the committed rows
ReadView(committed, working, holder) == committed

\* log_idea has run its DELETE for (n, date) and has not committed yet
Overwriting(p, n, date) ==
    /\ lock = p
    /\ pc[p] \in {"insert", "commit"}
    /\ loc[p].existing > 0
    /\ loc[p].niche = n /\ loc[p].date = date

\* log_idea, validation passed: connect, today = datetime.now()
WBegin(p, title, niche, day) ==
    /\ pc[p] = "idle"
    /\ ~LogIdeaInvalid(title, niche, day)
    /\ loc' = [loc EXCEPT ![p] = Locals(Strip(title), Strip(niche), day, today, 0, "-")]
    /\ pc' = [pc EXCEPT ![p] = "select"]
    /\ UNCHANGED <<store, today, lock, txn, rd>>

\* existing_today = SELECT ... WHERE niche = ? AND generation_date = ?
WSelect(p) ==
    /\ pc[p] = "select"
    /\ LET existing == SelectToday(ReadView(store, txn, lock), loc[p].niche, loc[p].date)
       IN  /\ loc' = [loc EXCEPT ![p].existing = Len(existing)]
           /\ pc' = [pc EXCEPT ![p] = IF existing # <<>> THEN "delete" ELSE "insert"]
    /\ UNCHANGED <<store, today, lock, txn, rd>>

\* if existing_today: DELETE ... (the write transaction opens here)
WDelete(p) ==
    /\ pc[p] = "delete"
    /\ lock = 0
    /\ lock' = p
    /\ txn' = DeleteToday(store, loc[p].niche, loc[p].date)
    /\ pc' = [pc EXCEPT ![p] = "insert"]
    /\ UNCHANGED <<store, today, loc, rd>>

\* INSERT ... (the write transaction opens here when no DELETE ran)
WInsert(p) ==
    /\ pc[p] = "insert"
    /\ lock \in {0, p}
    /\ LET row == Row(loc[p].title, loc[p].niche, loc[p].day, loc[p].date)
           base == IF lock = p THEN txn ELSE store
       IN  IF CheckConstraints(row)
           THEN /\ lock' = p
                /\ txn' = InsertRow(base, row)
                /\ pc' = [pc EXCEPT ![p] = "commit"]
                /\ UNCHANGED <<store, loc>>
           ELSE \* IntegrityError: the with block rolls back, log_idea returns False
                /\ lock' = 0
                /\ txn' = <<>>
                /\ store' = Rollback(store, base)
                /\ loc' = [loc EXCEPT ![p].ret = "false"]
                /\ pc' = [pc EXCEPT ![p] = "done"]
    /\ UNCHANGED <<today, rd>>

\* conn.commit(); return True
WCommit(p) ==
    /\ pc[p] = "commit"
    /\ lock = p
    /\ store' = txn
    /\ lock' = 0
    /\ txn' = <<>>
    /\ loc' = [loc EXCEPT ![p].ret = "true"]
    /\ pc' = [pc EXCEPT ![p] = "done"]
    /\ UNCHANGED <<today, rd>>

\* the DELETE or INSERT finds the database locked until the connection's
\* timeout: sqlite3.OperationalError, caught, log_idea returns False
WBusy(p) ==
    /\ pc[p] \in {"delete", "insert"}
    /\ lock \notin {0, p}
    /\ loc' = [loc EXCEPT ![p].ret = "false"]
    /\ pc' = [pc EXCEPT ![p] = "done"]
    /\ UNCHANGED <<store, today, lock, txn, rd>>

\* the caller has its result; it may call again
WReturn(p) ==
    /\ pc[p] = "done"
    /\ pc' = [pc EXCEPT ![p] = "idle"]
    /\ loc' = [loc EXCEPT ![p] = NoLocals]
    /\ UNCHANGED <<store, today, lock, txn, rd>>

\* get_current_day, validation passed: connect, today = datetime.now()
RBegin(niche) ==
    /\ pc[Reader] = "idle"
    /\ ~IsBlank(niche)
    /\ rd' = Read(Strip(niche), today, 0, 0, 0, FALSE)
    /\ pc' = [pc EXCEPT ![Reader] = "max"]
    /\ UNCHANGED <<store, today, loc, lock, txn>>

\* SELECT MAX(continuation_day) ... generation_date != ?
RMax ==
    /\ pc[Reader] = "max"
    /\ rd' = [rd EXCEPT !.max = HistoricalMax(ReadView(store, txn, lock), rd.niche, rd.date)]
    /\ pc' = [pc EXCEPT ![Reader] = "today"]
    /\ UNCHANGED <<store, today, loc, lock, txn>>

\* SELECT continuation_day ... generation_date = ? LIMIT 1; return current_day
RToday ==
    /\ pc[Reader] = "today"
    /\ LET rows == SelectToday(ReadView(store, txn, lock), rd.niche, rd.date)
       IN  rd' = [rd EXCEPT !.seen = Len(rows),
                            !.val = IF rows # <<>> THEN rows[1].day - 1 ELSE rd.max,
                            !.during = \E p \in Writers : Overwriting(p, rd.niche, rd.date)]
    /\ pc' = [pc EXCEPT ![Reader] = "idle"]
    /\ UNCHANGED <<store, today, loc, lock, txn>>

ConcMidnight ==
    /\ today < ConcDates
    /\ today' = today + 1
    /\ UNCHANGED <<store, pc, loc, lock, txn, rd>>


\* -------------------------------------------------- generate_content_ideas
MaxItems  == 3    \* ideas in one batch
MaxRunDay == 4    \* largest session counter a run reaches
RunDates  == 1    \* midnights that pass between generation runs

\* idea titles: two distinct titles, one of them padded, and a missing one
RunTitles == {<<>>, <<"a">>, <<"b", " ">>}

\* the niche an idea names, as the words of its text
Displays == {<<"Make", "Money", "Online", "/", "Personal Finance">>,
             <<"AI", "/", "Tech", "Tutorials">>,
             <<"Cooking">>}

\* `"word" in niche_display`
Contains(display, word) == \E i \in DOMAIN display : display[i] = word

\* "Map display niche back to database niche"; <<>> stands for None
DbNiche(display) ==
    IF Contains(display, "Personal Finance") \/ Contains(display, "Money") THEN <<"MMO">>
    ELSE IF Contains(display, "AI") \/ Contains(display, "Tech") THEN <<"AI/Tech">>
    ELSE IF Contains(display, "Faceless") THEN <<"Faceless">>
    ELSE <<>>

\* where the database can fail under one idea of the loop
RunFaults == {"none", "check", "insert"}

Run(phase, date, ok, data, counters, left) ==
    [phase |-> phase, date |-> date, ok |-> ok, data |-> data,
     counters |-> counters, left |-> left]
Zeros == [c \in Niches |-> 0]
Idle == Run("idle", 0, FALSE, Zeros, Zeros, 0)

\* per niche: k, the number of its items dealt with so far when every one of
\* them was new and logged (-1 once one was not), and the title of the last
NoBatch == [c \in Niches |-> [k |-> 0, last |-> <<>>]]
Spoiled(b, n) == IF n \in Niches THEN [b EXCEPT ![n].k = -1] ELSE b
Counted(b, n, title) ==
    [b EXCEPT ![n] = [k |-> IF @.k >= 0 THEN @.k + 1 ELSE -1, last |-> title]]

\* niche_data = {niche: get_current_day(niche)}, or all 0 when a read raises;
\* the model answers with n ideas; session_counters = niche_data
RunStart(n, readFails) ==
    /\ run.phase = "idle"
    /\ LET data == IF readFails THEN Zeros
                   ELSE [c \in Niches |-> GetCurrentDay(store, c, today)]
       IN  run' = Run("logging", today, ~readFails, data, data, n)
    /\ batch' = NoBatch
    /\ UNCHANGED <<store, today, call, seen1, start, logged>>

\* mutant: the loop is left after the idea
NextIdeaNone(r) == [r EXCEPT !.left = 0]

\* the loop goes on with the next idea, whatever happened to this one: a
\* False from log_idea is counted, an exception is caught inside the loop
NextIdea(r) == [r EXCEPT !.left = @ - 1]

\* one turn of `for i, idea in enumerate(content_ideas, 1)`
RunItem(title, display, fault) ==
    /\ run.phase = "logging"
    /\ run.left > 0
    /\ LET n == DbNiche(display)
       IN  IF IsBlank(title) \/ n = <<>>
           THEN \* empty title: continue; no database niche: nothing is done
                /\ fault = "none"
                /\ run' = NextIdea(run)
                /\ call' = Call("skip", <<>>, <<>>, 0, "none", 0, FALSE, FALSE, 0, "none")
                /\ batch' = Spoiled(batch, n)
                /\ UNCHANGED <<store, logged>>
           ELSE IF fault = "check"
           THEN \* check_for_duplication raises: db_errors += 1
                /\ run' = NextIdea(run)
                /\ call' = Call("check_for_duplication", title, <<>>, 0, Propagate(TRUE),
                                0, FALSE, TRUE, 0, "connect")
                /\ batch' = Spoiled(batch, n)
                /\ UNCHANGED <<store, logged>>
           ELSE IF CheckForDuplication(store, title)
           THEN \* duplicate_count += 1
                /\ fault = "none"
                /\ run' = NextIdea(run)
                /\ call' = Call("check_for_duplication", title, <<>>, 0, "none",
                                0, TRUE, TRUE, 0, "none")
                /\ batch' = Spoiled(batch, n)
                /\ UNCHANGED <<store, logged>>
           ELSE \* session_counters[db_niche] += 1; log_idea(title, db_niche, next_day)
                LET next_day == run.counters[n] + 1
                    out == LogIdeaTxn(store, title, n, next_day, today, fault)
                IN  /\ next_day <= MaxRunDay
                    /\ run' = [NextIdea(run) EXCEPT !.counters[n] = next_day]
                    /\ store' = LogIdeaStore(store, title, n, next_day, today, fault)
                    /\ call' = Call("log_idea", title, n, next_day,
                                    LogIdeaReturn(out.ok).exc, 0,
                                    LogIdeaReturn(out.ok).flag, TRUE, out.overwrote, fault)
                    /\ logged' = IF out.ok THEN [logged EXCEPT ![n] = TRUE] ELSE logged
                    /\ batch' = IF out.ok THEN Counted(batch, n, title) ELSE Spoiled(batch, n)
    /\ UNCHANGED <<today, seen1, start>>

\* the loop is over: the results are reported, the ideas returned
RunEnd ==
    /\ run.phase = "logging"
    /\ run.left = 0
    /\ run' = Idle
    /\ seen1' = IF run.ok /\ run.date = today /\ \A c \in Niches : seen1[c] = -1
                THEN run.data ELSE seen1
    /\ batch' = NoBatch
    /\ UNCHANGED <<store, today, call, start, logged>>

\* datetime.now() passes midnight
RunMidnight ==
    /\ today < RunDates
    /\ today' = today + 1
    /\ call' = Call("midnight", <<>>, <<>>, 0, "none", 0, FALSE, FALSE, 0, "none")
    /\ seen1' = [c \in Niches |-> -1]
    /\ start' = [c \in Niches |-> GetCurrentDay(store, c, today + 1)]
    /\ logged' = [c \in Niches |-> FALSE]
    /\ UNCHANGED <<store, run, batch>>

\* ------------------------------------------------------------ user_auth.py
\* user_sessions is the sequence of its rows; the session_id of a row is its
\* rowid.  Every session belongs to an account of auth_users, so the JOIN of
\* verify_session finds the user of every row.
AuthUsers == {"u1", "u2"}
SessionDays == 7    \* expires_at = now + timedelta(days=7)
MaxSessions == 2    \* create_session is called while user_sessions has fewer rows
MaxAuthDay == 8     \* the sessions' clock runs over 0 .. MaxAuthDay
Creators == {1, 2}  \* the connections running create_session
TeamOp == 3         \* a connection of team_collaboration.py, writing to the same file
NoSession == 0      \* the "" that create_session returns when it failed
SessionIds == 1 .. MaxSessions + 1

Session(u, exp) == [user |-> u, expires |-> exp, active |-> TRUE]

\* mutant: the UPDATE changes no row
DeactivateNone(tab, S) == tab

\* UPDATE user_sessions SET is_active = 0 WHERE <the row is one of S>
Deactivate(tab, S) ==
    [i \in DOMAIN tab |-> IF i \in S THEN [tab[i] EXCEPT !.active = FALSE] ELSE tab[i]]

\* WHERE user_id = ?
SessionsOf(tab, u) == {i \in DOMAIN tab : tab[i].user = u}

\* WHERE session_id = ?
SessionsWithId(tab, sid) == {i \in DOMAIN tab : i = sid}

\* WHERE s.session_id = ? AND s.is_active = 1
ActiveSession(tab, sid) == {i \in SessionsWithId(tab, sid) : tab[i].active}

\* mutant: no session expires
ExpiredNever(row, now) == FALSE

\* datetime.fromisoformat(expires_at) < datetime.now()
Expired(row, now) == row.expires < now

AuthCall(op, u, sid, ok, fault) ==
    [op |-> op, user |-> u, sid |-> sid, ok |-> ok, fault |-> fault]
NoAuthCall == AuthCall("none", "", NoSession, FALSE, "none")

Creator(at, u, exp, tab) == [at |-> at, user |-> u, expires |-> exp, txn |-> tab]
IdleCreator == Creator("idle", "", 0, <<>>)

\* create_session up to its INSERT: expires_at is computed, the UPDATE opens
\* the write transaction and deactivates the user's sessions in it.
CreateSessionBegin(p, u) ==
    /\ sproc[p].at = "idle"
    /\ slock = 0
    /\ Len(sessions) < MaxSessions
    /\ slock' = p
    /\ sproc' = [sproc EXCEPT ![p] =
           Creator("insert", u, anow + SessionDays,
                   Deactivate(sessions, SessionsOf(sessions, u)))]
    /\ UNCHANGED <<sessions, anow, scall, revoked, login, lnow>>

\* create_session whose UPDATE finds the file locked by another connection
\* until the busy timeout: sqlite3.OperationalError, caught, "" returned.
CreateSessionBusy(p, u) ==
    /\ sproc[p].at = "idle"
    /\ slock # 0
    /\ scall' = AuthCall("create_session", u, NoSession, FALSE, "busy")
    /\ UNCHANGED <<sessions, anow, sproc, slock, revoked, login, lnow>>

\* create_session from its INSERT on: the new row is added and the
\* transaction committed, or the commit fails and the `with` block rolls
\* the transaction back.
CreateSessionCommit(p, fault) ==
    /\ sproc[p].at = "insert"
    /\ slock' = 0
    /\ sproc' = [sproc EXCEPT ![p] = IdleCreator]
    /\ IF fault = "none"
       THEN /\ sessions' = Append(sproc[p].txn,
                                  Session(sproc[p].user, sproc[p].expires))
            /\ scall' = AuthCall("create_session", sproc[p].user,
                                 Len(sessions) + 1, TRUE, "none")
            /\ revoked' = revoked \cup SessionsOf(sessions, sproc[p].user)
       ELSE /\ scall' = AuthCall("create_session", sproc[p].user,
                                 NoSession, FALSE, fault)
            /\ UNCHANGED <<sessions, revoked>>
    /\ UNCHANGED <<anow, login, lnow>>

\* verify_session: the SELECT reads the committed table; a session found
\* expired is deactivated, unless the file is locked and the UPDATE raises
\* (caught: the answer is invalid either way).
VerifySession(sid) ==
    LET found == ActiveSession(sessions, sid) IN
    IF found = {}
    THEN /\ scall' = AuthCall("verify_session", "", sid, FALSE, "none")
         /\ UNCHANGED <<sessions, anow, sproc, slock, revoked, login, lnow>>
    ELSE IF Expired(sessions[sid], anow)
    THEN /\ sessions' = IF slock = 0
                        THEN Deactivate(sessions, SessionsWithId(sessions, sid))
                        ELSE sessions
         /\ scall' = AuthCall("verify_session", "", sid, FALSE,
                              IF slock = 0 THEN "none" ELSE "busy")
         /\ revoked' = revoked \cup {sid}
         /\ UNCHANGED <<anow, sproc, slock, login, lnow>>
    ELSE /\ scall' = AuthCall("verify_session", sessions[sid].user, sid, TRUE, "none")
         /\ UNCHANGED <<sessions, anow, sproc, slock, revoked, login, lnow>>

\* logout_user: the UPDATE and its commit, or, with the file locked until
\* the busy timeout, the sqlite3.OperationalError that logout_user prints
\* and swallows.  It returns None either way.
LogoutUser(sid) ==
    /\ sessions' = IF slock = 0
                   THEN Deactivate(sessions, SessionsWithId(sessions, sid))
                   ELSE sessions
    /\ scall' = AuthCall("logout_user", "", sid, TRUE,
                         IF slock = 0 THEN "none" ELSE "busy")
    /\ revoked' = revoked \cup SessionsWithId(sessions, sid)
    /\ UNCHANGED <<anow, sproc, slock, login, lnow>>

\* a function of team_collaboration.py opens its write transaction on the
\* file and keeps it open while its log_team_activity call waits
TeamOpBegin ==
    /\ slock = 0
    /\ slock' = TeamOp
    /\ UNCHANGED <<sessions, anow, sproc, scall, revoked, login, lnow>>

TeamOpCommit ==
    /\ slock = TeamOp
    /\ slock' = 0
    /\ UNCHANGED <<sessions, anow, sproc, scall, revoked, login, lnow>>

\* time passes: the life of a session, or a day more
AuthTick(d) ==
    /\ anow + d <= MaxAuthDay
    /\ anow' = anow + d
    /\ UNCHANGED <<sessions, sproc, slock, scall, revoked, login, lnow>>

\* ------------------------------------------------------- authenticate_user
MAX_LOGIN_ATTEMPTS == 5
LOCKOUT_DURATION == 30    \* minutes
MaxLoginMinute == 31      \* the clock of the logins runs over 0 .. MaxLoginMinute
LoginNames == {"u1", "nobody"}
Passwords == {"right", "wrong"}

\* auth_users: the accounts, each active (is_active defaults to 1 and no
\* statement of the program changes it)
Accounts == [u \in AuthUsers |-> [is_active |-> TRUE, password |-> "right"]]

\* verify_password(password, stored_hash)
VerifyPassword(pw, account) == pw = account.password

\* authenticate_user(username, password) -> success
Authenticated(name, pw) ==
    /\ name \in DOMAIN Accounts
    /\ Accounts[name].is_active
    /\ VerifyPassword(pw, Accounts[name])

Fails(n, at) == [n |-> n, at |-> at]
NoFails == Fails(0, 0)

\* history: the failed logins in a row for the name, and when the
\* MAX_LOGIN_ATTEMPTS-th of them happened
FailedAgain(f, now) ==
    IF f.n >= MAX_LOGIN_ATTEMPTS THEN f
    ELSE Fails(f.n + 1, IF f.n + 1 = MAX_LOGIN_ATTEMPTS THEN now ELSE 0)

AuthenticateUser(name, pw) ==
    LET ok == Authenticated(name, pw) IN
    /\ scall' = AuthCall("authenticate_user", name, NoSession, ok, "none")
    /\ login' = [login EXCEPT ![name] = IF ok THEN NoFails ELSE FailedAgain(@, lnow)]
    /\ UNCHANGED <<sessions, anow, sproc, slock, revoked, lnow>>

LoginTick(d) ==
    /\ lnow + d <= MaxLoginMinute
    /\ lnow' = lnow + d
    /\ UNCHANGED <<sessions, anow, sproc, slock, scall, revoked, login>>

AuthInit ==
    /\ sessions = <<>>
    /\ anow = 0
    /\ sproc = [p \in Creators |-> IdleCreator]
    /\ slock = 0
    /\ scall = NoAuthCall
    /\ revoked = {}
    /\ login = [n \in LoginNames |-> NoFails]
    /\ lnow = 0

\* ---------------------------------------------------- team_collaboration.py
\* teams, team_invitations, team_projects, shared_generations and
\* team_activity are the sequences of their rows: a team_id, an
\* invitation_token, a project_id is the rowid of its row.  team_members,
\* whose rows are never changed, is the set of them.  Time is counted in
\* days.  No function but setup_team_database turns foreign keys on, so no
\* statement of the others is refused for a missing parent row.
MinTeamName == 3    \* len(team_name.strip()) < 3
InviteDays == 7     \* expires_at = now + timedelta(days=7)
MaxTeams == 1       \* create_team is called while teams has fewer rows
MaxInvites == 2     \* invite_team_member, while team_invitations has fewer rows
MaxProjects == 1    \* create_team_project, while team_projects has fewer rows
MaxShared == 1      \* share_generation_to_team, while shared_generations has fewer rows
MaxTeamDay == 8     \* the teams' clock runs over 0 .. MaxTeamDay

TeamNames == {<<"a", "b", " ">>, <<"d", "e", "v">>}
MemberCaps == 1 .. Cardinality(AuthUsers)
Roles == {"member", "moderator"}

\* auth_users: the accounts the team functions are called for, and their emails
TeamUsers == AuthUsers \cup {"u3"}
EmailOf == [u \in TeamUsers |-> IF u = "u1" THEN "e1" ELSE IF u = "u2" THEN "e2" ELSE "e3"]
Emails == {EmailOf[u] : u \in TeamUsers}

Team(name, owner, cap) == [name |-> name, owner |-> owner, max_members |-> cap]
Member(t, u, role, perms) ==
    [team |-> t, user |-> u, role |-> role, permissions |-> perms, active |-> TRUE]
Invitation(t, email, by, role, perms, exp) ==
    [team |-> t, email |-> email, by |-> by, status |-> "pending",
     role |-> role, permissions |-> perms, expires |-> exp]
Project(t, by) == [team |-> t, by |-> by]
Shared(pr, t, by) == [project |-> pr, team |-> t, by |-> by]
Activity(t, u, type) == [team |-> t, user |-> u, type |-> type]

TeamCall(op, ok, t, u, ref, email) ==
    [op |-> op, ok |-> ok, team |-> t, user |-> u, ref |-> ref, email |-> email]
NoTeamCall == TeamCall("none", FALSE, 0, "", 0, "")

\* 'read,write,invite,manage'
OwnerPermissions == {"read", "write", "invite", "manage"}

\* "read,generate" if role == "member" else "read,generate,invite"
InvitationPermissions(role) ==
    IF role = "member" THEN {"read", "generate"} ELSE {"read", "generate", "invite"}

\* WHERE team_id = ? AND user_id = ? AND is_active = 1
ActiveMember(tab, t, u) == {m \in tab : m.team = t /\ m.user = u /\ m.active}

\* has_team_permission(team_id, user_id, permission)
HasTeamPermission(tab, t, u, permission) ==
    \E m \in ActiveMember(tab, t, u) :
        permission \in m.permissions \/ "manage" \in m.permissions

\* WHERE team_id = ? AND invited_email = ? AND status = 'pending'
PendingFor(tab, t, email) ==
    {i \in DOMAIN tab : tab[i].team = t /\ tab[i].email = email /\ tab[i].status = "pending"}

\* team_members JOIN auth_users WHERE tm.team_id = ? AND u.email = ? AND tm.is_active = 1
MemberWithEmail(tab, t, email) ==
    {m \in tab : m.team = t /\ m.user \in DOMAIN EmailOf /\ EmailOf[m.user] = email /\ m.active}

\* WHERE invitation_token = ? AND status = 'pending'
PendingToken(tab, token) == {i \in DOMAIN tab : i = token /\ tab[i].status = "pending"}

\* datetime.fromisoformat(expires_at) < datetime.now()
InvitationExpired(inv, now) == inv.expires < now

\* mutant: any account may accept
EmailMatchesAny(u, email) == TRUE

\* user_email and user_email[0] == invited_email
EmailMatches(u, email) == u \in DOMAIN EmailOf /\ EmailOf[u] = email

\* UNIQUE(team_id, user_id)
MemberUnique(tab, t, u) == ~\E m \in tab : m.team = t /\ m.user = u

\* log_team_activity called by a function whose write transaction is open:
\* its own connection's INSERT waits for the lock until the busy timeout,
\* raises sqlite3.OperationalError, and log_team_activity prints the error
\* and returns.  With no transaction open the row is inserted and committed.
LogTeamActivity(act, locked, row) == IF locked THEN act ELSE Append(act, row)

\* create_team(owner_id, team_name, description, max_members)
CreateTeam(owner, name, cap) ==
    /\ Len(teams) < MaxTeams
    /\ IF \/ Len(Strip(name)) < MinTeamName
          \/ \E i \in DOMAIN teams : teams[i].owner = owner /\ teams[i].name = name
       THEN /\ tcall' = TeamCall("create_team", FALSE, 0, owner, 0, "")
            /\ UNCHANGED <<teams, members, activity>>
       ELSE /\ teams' = Append(teams, Team(Strip(name), owner, cap))
            /\ members' = members \cup
                   {Member(Len(teams) + 1, owner, "admin", OwnerPermissions)}
            /\ activity' = LogTeamActivity(activity, TRUE,
                               Activity(Len(teams) + 1, owner, "team_created"))
            /\ tcall' = TeamCall("create_team", TRUE, Len(teams) + 1, owner, 0, "")
    /\ UNCHANGED <<invitations, projects, shared, tnow>>

\* invite_team_member(team_id, inviter_id, email, role)
InviteTeamMember(t, inviter, email, role) ==
    /\ Len(invitations) < MaxInvites
    /\ IF \/ ~\E m \in ActiveMember(members, t, inviter) : "invite" \in m.permissions
          \/ PendingFor(invitations, t, email) # {}
          \/ MemberWithEmail(members, t, email) # {}
       THEN /\ tcall' = TeamCall("invite_team_member", FALSE, t, inviter, 0, email)
            /\ UNCHANGED <<invitations, activity>>
       ELSE /\ invitations' = Append(invitations,
                   Invitation(t, email, inviter, role,
                              InvitationPermissions(role), tnow + InviteDays))
            /\ activity' = LogTeamActivity(activity, TRUE,
                               Activity(t, inviter, "member_invited"))
            /\ tcall' = TeamCall("invite_team_member", TRUE, t, inviter,
                                 Len(invitations) + 1, email)
    /\ UNCHANGED <<teams, members, projects, shared, tnow>>

\* accept_team_invitation(invitation_token, user_id); a failing INSERT or
\* commit leaves the `with` block by its exception, which rolls back
AcceptTeamInvitation(token, u, fault) ==
    LET inv == invitations[token] IN
    /\ IF \/ PendingToken(invitations, token) = {}
          \/ InvitationExpired(inv, tnow)
          \/ ~EmailMatches(u, inv.email)
          \/ ~MemberUnique(members, inv.team, u)
          \/ fault # "none"
       THEN /\ tcall' = TeamCall("accept_team_invitation", FALSE, 0, u, token, "")
            /\ UNCHANGED <<members, invitations, activity>>
       ELSE /\ members' = members \cup
                   {Member(inv.team, u, inv.role, inv.permissions)}
            /\ invitations' = [invitations EXCEPT ![token].status = "accepted"]
            /\ activity' = LogTeamActivity(activity, TRUE,
                               Activity(inv.team, u, "member_joined"))
            /\ tcall' = TeamCall("accept_team_invitation", TRUE, inv.team, u, token, "")
    /\ UNCHANGED <<teams, projects, shared, tnow>>

\* create_team_project(team_id, creator_id, project_name, description, niches)
CreateTeamProject(t, creator) ==
    /\ Len(projects) < MaxProjects
    /\ IF ~HasTeamPermission(members, t, creator, "write")
       THEN /\ tcall' = TeamCall("create_team_project", FALSE, t, creator, 0, "")
            /\ UNCHANGED <<projects, activity>>
       ELSE /\ projects' = Append(projects, Project(t, creator))
            /\ activity' = LogTeamActivity(activity, TRUE,
                               Activity(t, creator, "project_created"))
            /\ tcall' = TeamCall("create_team_project", TRUE, t, creator,
                                 Len(projects) + 1, "")
    /\ UNCHANGED <<teams, members, invitations, shared, tnow>>

\* share_generation_to_team(team_id, project_id, user_id, ...)
ShareGenerationToTeam(t, pr, u) ==
    /\ Len(shared) < MaxShared
    /\ shared' = Append(shared, Shared(pr, t, u))
    /\ activity' = LogTeamActivity(activity, TRUE, Activity(t, u, "generation_shared"))
    /\ tcall' = TeamCall("share_generation_to_team", TRUE, t, u, pr, "")
    /\ UNCHANGED <<teams, members, invitations, projects, tnow>>

\* time passes: the life of an invitation, or a day more
TeamTick(d) ==
    /\ tnow + d <= MaxTeamDay
    /\ tnow' = tnow + d
    /\ UNCHANGED <<teams, members, invitations, projects, shared, activity, tcall>>

TeamInit ==
    /\ teams = <<>>
    /\ members = {}
    /\ invitations = <<>>
    /\ projects = <<>>
    /\ shared = <<>>
    /\ activity = <<>>
    /\ tnow = 0
    /\ tcall = NoTeamCall

\* ----------------------------------------------------------- specification
\* The tracker called through its three functions, one call at a time.
Init ==
    /\ store = <<>>
    /\ today = 0
    /\ call = NoCall
    /\ pend = NoPend
    /\ snap = NoSnap
    /\ pc = [p \in Callers |-> "idle"]
    /\ loc = [p \in Writers |-> NoLocals]
    /\ lock = 0
    /\ txn = <<>>
    /\ rd = NoRead
    /\ run = Idle
    /\ seen1 = [c \in Niches |-> -1]
    /\ start = [c \in Niches |-> 0]
    /\ logged = [c \in Niches |-> FALSE]
    /\ batch = NoBatch
    /\ stats = NoStats
    /\ AuthInit
    /\ TeamInit
    /\ schema = "current"

Next ==
    \/ (\E a \in LogIdeaArgs, f \in Faults : LogIdea(a[1], a[2], a[3], f))
          /\ UNCHANGED <<concVars, runVars, schema, stats, authVars, teamVars>>
    \/ (\E a \in GetCurrentDayArgs : GetCurrentDayCall(a[1], a[2]))
          /\ UNCHANGED <<concVars, runVars, schema, stats, authVars, teamVars>>
    \/ (\E a \in CheckArgs : CheckForDuplicationCall(a[1], a[2]))
          /\ UNCHANGED <<concVars, runVars, schema, stats, authVars, teamVars>>
    \/ Midnight /\ UNCHANGED <<concVars, runVars, schema, stats, authVars, teamVars>>

Spec == Init /\ [][Next]_vars

\* Two log_idea callers and one reader, each on a connection of its own,
\* interleaved statement by statement.
NextConc ==
    \/ (\E p \in Writers : \E a \in ConcArgs(p) : WBegin(p, a[1], a[2], a[3]))
          /\ UNCHANGED <<apiVars, runVars, schema, stats, authVars, teamVars>>
    \/ (\E p \in Writers : WSelect(p)) /\ UNCHANGED <<apiVars, runVars, schema, stats, authVars, teamVars>>
    \/ (\E p \in Writers : WDelete(p)) /\ UNCHANGED <<apiVars, runVars, schema, stats, authVars, teamVars>>
    \/ (\E p \in Writers : WInsert(p)) /\ UNCHANGED <<apiVars, runVars, schema, stats, authVars, teamVars>>
    \/ (\E p \in Writers : WCommit(p)) /\ UNCHANGED <<apiVars, runVars, schema, stats, authVars, teamVars>>
    \/ (\E p \in Writers : WBusy(p)) /\ UNCHANGED <<apiVars, runVars, schema, stats, authVars, teamVars>>
    \/ (\E p \in Writers : WReturn(p)) /\ UNCHANGED <<apiVars, runVars, schema, stats, authVars, teamVars>>
    \/ (\E n \in ReaderNiches : RBegin(n)) /\ UNCHANGED <<apiVars, runVars, schema, stats, authVars, teamVars>>
    \/ RMax /\ UNCHANGED <<apiVars, runVars, schema, stats, authVars, teamVars>>
    \/ RToday /\ UNCHANGED <<apiVars, runVars, schema, stats, authVars, teamVars>>
    \/ ConcMidnight /\ UNCHANGED <<apiVars, runVars, schema, stats, authVars, teamVars>>

SpecConc == Init /\ [][NextConc]_vars

\* Generation runs, one at a time, each logging its batch idea by idea.
NextRun ==
    \/ (\E n \in 1 .. MaxItems, f \in BOOLEAN : RunStart(n, f))
          /\ UNCHANGED <<pend, snap, concVars, schema, stats, authVars, teamVars>>
    \/ (\E t \in RunTitles, d \in Displays, f \in RunFaults : RunItem(t, d, f))
          /\ UNCHANGED <<pend, snap, concVars, schema, stats, authVars, teamVars>>
    \/ RunEnd /\ UNCHANGED <<pend, snap, concVars, schema, stats, authVars, teamVars>>
    \/ RunMidnight /\ UNCHANGED <<pend, snap, concVars, schema, stats, authVars, teamVars>>

SpecRun == Init /\ [][NextRun]_vars

\* The tracker logging under two categories, day after day.
CatDates == 1    \* the two categories are logged on the dates 0 .. CatDates
CatArgs == {<< <<"A", " ">>, n, d >> : n \in {<<"MMO">>, <<"AI/Tech">>}, d \in {1, MaxSeq}}
CatFaults == {"none", "insert"}

NextCats ==
    \/ (\E a \in CatArgs, f \in CatFaults : LogIdea(a[1], a[2], a[3], f))
          /\ UNCHANGED <<concVars, runVars, schema, stats, authVars, teamVars>>
    \/ (today < CatDates /\ Midnight) /\ UNCHANGED <<concVars, runVars, schema, stats, authVars, teamVars>>
    \/ (\E f \in BOOLEAN : GetDatabaseStatsCall(f))
          /\ UNCHANGED <<concVars, runVars, schema, authVars, teamVars>>

SpecCats == Init /\ [][NextCats]_vars

\* setup_database run at every start of the application, on a database file
\* that is missing, was written before generation_date existed, or is current.
SetupDates == 1    \* the application starts on the dates 0 .. SetupDates
SetupArgs == {<< <<"U+00C9">>, <<"MMO">>, d >> : d \in {1, MaxSeq}}

InitSetup ==
    /\ schema \in {"none", "legacy", "current"}
    /\ store \in IF schema = "legacy" THEN LegacyStores ELSE {<<>>}
    /\ today = 0
    /\ call = NoCall
    /\ pend = NoPend
    /\ snap = NoSnap
    /\ pc = [p \in Callers |-> "idle"]
    /\ loc = [p \in Writers |-> NoLocals]
    /\ lock = 0
    /\ txn = <<>>
    /\ rd = NoRead
    /\ run = Idle
    /\ seen1 = [c \in Niches |-> -1]
    /\ start = [c \in Niches |-> 0]
    /\ logged = [c \in Niches |-> FALSE]
    /\ batch = NoBatch
    /\ stats = NoStats
    /\ AuthInit
    /\ TeamInit

NextSetup ==
    \/ (\E f \in SetupFaults : SetupDatabase(f)) /\ UNCHANGED <<concVars, runVars, stats, authVars, teamVars>>
    \/ (\E a \in SetupArgs : schema = "current" /\ LogIdea(a[1], a[2], a[3], "none"))
          /\ UNCHANGED <<concVars, runVars, schema, stats, authVars, teamVars>>
    \/ (today < SetupDates /\ Midnight) /\ UNCHANGED <<concVars, runVars, schema, stats, authVars, teamVars>>

SpecSetup == InitSetup /\ [][NextSetup]_vars

\* The sessions of user_auth.py: two connections running create_session, any
\* caller verifying or logging out a session id, and a team function writing
\* to the same file.
NextAuth ==
    \/ (\E p \in Creators, u \in AuthUsers : CreateSessionBegin(p, u))
          /\ UNCHANGED <<apiVars, concVars, runVars, store, today, schema, stats, teamVars>>
    \/ (\E p \in Creators, u \in AuthUsers : CreateSessionBusy(p, u))
          /\ UNCHANGED <<apiVars, concVars, runVars, store, today, schema, stats, teamVars>>
    \/ (\E p \in Creators, f \in {"none", "commit"} : CreateSessionCommit(p, f))
          /\ UNCHANGED <<apiVars, concVars, runVars, store, today, schema, stats, teamVars>>
    \/ (\E sid \in SessionIds : VerifySession(sid))
          /\ UNCHANGED <<apiVars, concVars, runVars, store, today, schema, stats, teamVars>>
    \/ (\E sid \in SessionIds : LogoutUser(sid))
          /\ UNCHANGED <<apiVars, concVars, runVars, store, today, schema, stats, teamVars>>
    \/ TeamOpBegin
          /\ UNCHANGED <<apiVars, concVars, runVars, store, today, schema, stats, teamVars>>
    \/ TeamOpCommit
          /\ UNCHANGED <<apiVars, concVars, runVars, store, today, schema, stats, teamVars>>
    \/ (\E d \in {SessionDays, SessionDays + 1} : AuthTick(d))
          /\ UNCHANGED <<apiVars, concVars, runVars, store, today, schema, stats, teamVars>>

SpecAuth == Init /\ [][NextAuth]_vars

\* The logins of user_auth.py, one call at a time.
NextLogin ==
    \/ (\E n \in LoginNames, pw \in Passwords : AuthenticateUser(n, pw))
          /\ UNCHANGED <<apiVars, concVars, runVars, store, today, schema, stats, teamVars>>
    \/ (\E d \in {1, LOCKOUT_DURATION} : LoginTick(d))
          /\ UNCHANGED <<apiVars, concVars, runVars, store, today, schema, stats, teamVars>>

SpecLogin == Init /\ [][NextLogin]_vars


\* The invitations of team_collaboration.py, one call at a time: teams of
\* two owners, and invitations sent while fewer than MaxTokens exist.
MaxTokens == 1

NextInvite ==
    \/ (\E o \in AuthUsers, n \in TeamNames : CreateTeam(o, n, Cardinality(TeamUsers)))
          /\ UNCHANGED <<apiVars, concVars, runVars, store, today, schema, stats, authVars>>
    \/ (\E t \in 1 .. MaxTeams, u \in TeamUsers, e \in Emails, r \in Roles :
            Len(invitations) < MaxTokens /\ InviteTeamMember(t, u, e, r))
          /\ UNCHANGED <<apiVars, concVars, runVars, store, today, schema, stats, authVars>>
    \/ (\E k \in DOMAIN invitations, u \in TeamUsers, f \in {"none", "commit"} :
            AcceptTeamInvitation(k, u, f))
          /\ UNCHANGED <<apiVars, concVars, runVars, store, today, schema, stats, authVars>>
    \/ (\E d \in {InviteDays, InviteDays + 1} : TeamTick(d))
          /\ UNCHANGED <<apiVars, concVars, runVars, store, today, schema, stats, authVars>>

SpecInvite == Init /\ [][NextInvite]_vars

\* The teams of team_collaboration.py with their projects and shared
\* generations, one call at a time.
NextTeam ==
    \/ (\E o \in TeamUsers, n \in TeamNames, c \in MemberCaps : CreateTeam(o, n, c))
          /\ UNCHANGED <<apiVars, concVars, runVars, store, today, schema, stats, authVars>>
    \/ (\E t \in 1 .. MaxTeams, u \in TeamUsers, e \in Emails, r \in Roles :
            InviteTeamMember(t, u, e, r))
          /\ UNCHANGED <<apiVars, concVars, runVars, store, today, schema, stats, authVars>>
    \/ (\E k \in DOMAIN invitations, u \in TeamUsers : AcceptTeamInvitation(k, u, "none"))
          /\ UNCHANGED <<apiVars, concVars, runVars, store, today, schema, stats, authVars>>
    \/ (\E t \in 1 .. MaxTeams, u \in TeamUsers : CreateTeamProject(t, u))
          /\ UNCHANGED <<apiVars, concVars, runVars, store, today, schema, stats, authVars>>
    \/ (\E t \in 1 .. MaxTeams, pr \in 1 .. MaxProjects, u \in TeamUsers :
            ShareGenerationToTeam(t, pr, u))
          /\ UNCHANGED <<apiVars, concVars, runVars, store, today, schema, stats, authVars>>
    \/ (\E d \in {InviteDays, InviteDays + 1} : TeamTick(d))
          /\ UNCHANGED <<apiVars, concVars, runVars, store, today, schema, stats, authVars>>

SpecTeam == Init /\ [][NextTeam]_vars

\* ================================================================== claims
\* what the claims call a title "equal ignoring letter case": every letter
\* folded, the ASCII letters and the accented ones alike
FoldChar(c) == IF c = "U+00C9" THEN "U+00E9" ELSE SqlLowerChar(c)
Fold(s) == [i \in DOMAIN s |-> FoldChar(s[i])]

\* "empty or whitespace-only", said of an argument
AllSpaces(s) == \A i \in DOMAIN s : s[i] = Space

Returned(op) == call.op = op /\ call.exc = "none"

\* C3: when category X has no entry dated today, get_current_day(X) returns
\* the maximum stored sequence_day n (0 without entries); after a successful
\* log_idea(_, X, n+1) made from such a state, get_current_day(X) returns n
\* for the rest of that day and n+1 on the next calendar day.
C3_CrossDayAdvance ==
    Returned("get_current_day") =>
        LET x == Strip(call.niche)
        IN  /\ SelectToday(store, x, today) = <<>> => call.val = MaxStored(store, x)
            /\ (pend.niche = x /\ today = pend.date) => call.val = pend.n
            /\ (pend.niche = x /\ today = pend.date + 1) => call.val = pend.n + 1

\* C3 witness: X had history up to n >= 1, log_idea(_, X, n+1) was made
\* yesterday, and get_current_day(X) has just returned n+1.
C3_Witness ==
    /\ Returned("get_current_day")
    /\ pend.niche = Strip(call.niche)
    /\ pend.n >= 1
    /\ today = pend.date + 1
    /\ call.val = pend.n + 1

\* C4 as written: after a successful log_idea for category X, exactly one
\* entry exists for (X, today) and it carries the title and the sequence_day
\* passed to that call.
C4_TitleAsPassed ==
    (Returned("log_idea") /\ call.flag) =>
        LET rows == SelectToday(store, Strip(call.niche), today)
        IN  /\ Len(rows) = 1
            /\ rows[1].title = call.title
            /\ rows[1].day = call.day

\* C4 amended: after a successful log_idea for category X, exactly one entry
\* exists for (X, today); it carries the title passed to that call with its
\* leading and trailing whitespace removed, and the call's sequence_day.
C4_SameDayOverwrite ==
    (Returned("log_idea") /\ call.flag) =>
        LET rows == SelectToday(store, Strip(call.niche), today)
        IN  /\ Len(rows) = 1
            /\ rows[1].title = Strip(call.title)
            /\ rows[1].day = call.day

\* C4 witness: a successful log_idea that overwrote today's entry of its
\* category, with another title and another sequence_day than the older
\* entry of the table carries.
C4_Witness ==
    /\ Returned("log_idea") /\ call.flag
    /\ call.overwrote = 1
    /\ Len(SelectToday(store, Strip(call.niche), today)) = 1
    /\ \E i \in DOMAIN store : store[i].title # Strip(call.title) /\ store[i].day # call.day

\* C5: a get_current_day(C) call returns what the previous get_current_day(C)
\* call returned, when no write (successful log_idea) and no midnight lies
\* between the two.
C5_IdempotentRead ==
    [][(call'.op = "get_current_day" /\ call'.exc = "none"
        /\ snap.niche = Strip(call'.niche) /\ snap'.again)
       => call'.val = snap.val]_vars

\* C5 witness: get_current_day(C) has returned a second time since the last
\* write, and C has an entry dated today.
C5_Witness ==
    /\ Returned("get_current_day")
    /\ snap.again /\ snap.niche = Strip(call.niche)
    /\ SelectToday(store, snap.niche, today) # <<>>

\* C8: whenever log_idea returns false, the table is the table before the call.
C8_AllOrNothing ==
    [][(call'.op = "log_idea" /\ call'.exc = "none" /\ ~call'.flag) => store' = store]_vars

\* C8 witness: log_idea returned false after its DELETE had removed today's
\* entry, and that entry is in the table.
C8_Witness ==
    /\ Returned("log_idea") /\ ~call.flag
    /\ call.overwrote = 1
    /\ Len(SelectToday(store, Strip(call.niche), today)) = 1

\* C9: check_for_duplication(t) returns true if and only if some stored entry
\* has a title equal to t ignoring letter case (t taken without its leading
\* and trailing whitespace, as both functions store and compare it).
C9_DuplicateIffEqualIgnoringCase ==
    Returned("check_for_duplication") =>
        (call.flag <=> \E i \in DOMAIN store : Fold(store[i].title) = Fold(Strip(call.title)))

\* C10: log_idea with an empty or whitespace-only title or category or with
\* sequence_day < 1, and check_for_duplication with an empty or
\* whitespace-only title, raise ValueError, open no database and leave the
\* table unchanged.
C10_ValidationBeforeStorage ==
    [][((call'.op = "log_idea"
           /\ (AllSpaces(call'.title) \/ AllSpaces(call'.niche) \/ call'.day < 1))
        \/ (call'.op = "check_for_duplication" /\ AllSpaces(call'.title)))
       => (call'.exc = "ValueError" /\ ~call'.touched /\ store' = store)]_vars

\* C10 witness: log_idea with sequence_day 0 and otherwise valid arguments
\* has raised ValueError on a table that holds an entry.
C10_Witness ==
    /\ call.op = "log_idea" /\ call.exc = "ValueError"
    /\ call.day < 1 /\ ~AllSpaces(call.title) /\ ~AllSpaces(call.niche)
    /\ store # <<>>

\* C6: once two log_idea calls for the same category and calendar day have
\* both returned, exactly one entry exists for that (category, day).
C6_ConcurrentWritersLeaveOne ==
    (pc[1] = "done" /\ pc[2] = "done"
     /\ loc[1].niche = loc[2].niche /\ loc[1].date = loc[2].date)
    => Len(SelectToday(store, loc[1].niche, loc[1].date)) = 1

\* C7: while a log_idea call is between its DELETE of today's entry of a
\* category and its commit, the table a reader reads holds an entry of that
\* (category, day), and a get_current_day that read the day's rows meanwhile
\* found at least one.
C7_ReaderNeverSeesGap ==
    /\ \A p \in Writers :
          Overwriting(p, loc[p].niche, loc[p].date)
          => SelectToday(ReadView(store, txn, lock), loc[p].niche, loc[p].date) # <<>>
    /\ rd.during => rd.seen >= 1

\* C7 witness: get_current_day has read today's rows while a log_idea call
\* had deleted today's entry in its open transaction, and returned the day
\* of the old entry.
C7_Witness ==
    /\ pc[Reader] = "idle" /\ rd.during /\ rd.seen = 1
    /\ \E p \in Writers : Overwriting(p, rd.niche, rd.date) /\ txn = <<>>

\* C1: once a generation run has completed today, every later run of the
\* same day reads, for every category, the get_current_day value the first
\* run read (and so assigns the same sequence days).
C1_SameDayRunsReadTheSame ==
    \A c \in Niches :
        (run.phase = "logging" /\ run.ok /\ run.date = today /\ seen1[c] >= 0)
        => run.data[c] = seen1[c]

\* C2: when a generation run has logged an entry for category C today,
\* get_current_day(C) at the start of the next day is get_current_day(C) at
\* the start of today plus exactly 1.
C2_NextDayAdvancesByOne ==
    [][\A c \in Niches :
          (today' = today + 1 /\ logged[c]) => start'[c] = start[c] + 1]_vars

\* C11 as written: get_current_day(c) raises ValueError for every c that is
\* empty or not a recognized category, and returns a day number only for a
\* recognized one.
C11_RejectsUnrecognized ==
    (call.op = "get_current_day" /\ call.exc # "sqlite3.Error") =>
        (call.exc = "ValueError" <=> Strip(call.niche) \notin Niches)

\* C11: get_current_day(c) raises ValueError exactly when c is empty or
\* whitespace-only; for every other c, recognized or not, it returns a day
\* number, which is 0 for an unrecognized category.
C11_RejectsBlankOnly ==
    (call.op = "get_current_day" /\ call.exc # "sqlite3.Error") =>
        /\ call.exc = "ValueError" <=> AllSpaces(call.niche)
        /\ (call.exc = "none" /\ Strip(call.niche) \notin Niches) => call.val = 0

\* C11 witness: get_current_day of an unrecognized category has returned
\* from a store that holds entries.
C11_Witness ==
    /\ Returned("get_current_day")
    /\ ~AllSpaces(call.niche)
    /\ Strip(call.niche) \notin Niches
    /\ store # <<>>

\* C12: when the store holds no entry at all, get_current_day(X) returns 0
\* for every valid category X.
C12_FreshStore ==
    (Returned("get_current_day") /\ store = <<>>) => call.val = 0

\* C12 witness: get_current_day of a recognized category has returned from
\* an empty store.
C12_Witness ==
    /\ Returned("get_current_day")
    /\ Strip(call.niche) \in Niches
    /\ store = <<>>

\* C13: in every reachable store, every stored entry has sequence_day >= 1.
C13_SequenceDayPositive ==
    \A i \in DOMAIN store : store[i].day >= 1

\* C13 witness: log_idea with sequence_day 0 has been rejected, and the
\* store holds an entry with sequence_day 1.
C13_Witness ==
    /\ call.op = "log_idea" /\ call.day = 0 /\ call.exc = "ValueError"
    /\ \E i \in DOMAIN store : store[i].day = 1

\* C14: for any two stored entries of the same category, the entry with the
\* later entry_date has a sequence_day greater than or equal to that of the
\* entry with the earlier entry_date.
C14_MonotoneAcrossDays ==
    \A i, j \in DOMAIN store :
        (store[i].niche = store[j].niche /\ store[i].date < store[j].date)
        => store[i].day <= store[j].day

\* C15: when the last successful log_idea for C on day D carried sequence_day
\* n, get_current_day(C) on day D+1, before any write on D+1, returns n.
C15_DayAfterWrite ==
    LET x == Strip(call.niche)
    IN  ( /\ Returned("get_current_day")
          /\ today >= 1
          /\ SelectToday(store, x, today) = <<>>
          /\ SelectToday(store, x, today - 1) # <<>> )
        => call.val = SelectToday(store, x, today - 1)[1].day

C17_ReadFailurePropagates ==
    (call.op \in {"get_current_day", "check_for_duplication"} /\ call.fault # "none")
        => call.exc = "sqlite3.Error"

\* C17 witness: the store could not be read under a get_current_day call
\* whose category has an entry of today with sequence_day 2, so that 0 is not
\* the value a successful read returns.
C17_Witness ==
    /\ call.op = "get_current_day"
    /\ call.fault # "none"
    /\ GetCurrentDay(store, call.niche, today) = 1

\* the entries that are not of (category n, date), in the order stored
Others(db, n, date) == SelectSeq(db, LAMBDA r : ~(r.niche = n /\ r.date = date))

\* C18: log_idea(_, C, _) on day D changes only the entries of (C, D): the
\* entries of every other category, and those of C with another entry_date,
\* are the same after the call as before it.
C18_OnlyTodaysCategoryChanges ==
    [][call'.op = "log_idea" =>
          Others(store', Strip(call'.niche), today)
              = Others(store, Strip(call'.niche), today)]_vars

\* C18 witness: a successful log_idea has overwritten today's entry of its
\* category while the store holds an entry of another category and an
\* earlier entry of the same category.
C18_Witness ==
    /\ Returned("log_idea")
    /\ call.flag /\ call.overwrote > 0
    /\ \E i \in DOMAIN store : store[i].niche # call.niche
    /\ \E i \in DOMAIN store : store[i].niche = call.niche /\ store[i].date < today

\* C19: get_current_day and check_for_duplication are pure reads: whatever
\* they return or raise, the stored entries are the same after the call as
\* before it.
C19_ReadsArePure ==
    [][call'.op \in {"get_current_day", "check_for_duplication"} => store' = store]_vars

\* C19 witness: check_for_duplication has found its title in the store.
C19_Witness ==
    /\ Returned("check_for_duplication")
    /\ call.flag
    /\ store # <<>>

\* title, category and sequence_day of every entry, in the order stored
Entries(db) == [i \in DOMAIN db |-> <<db[i].title, db[i].niche, db[i].day>>]

\* C20: setup_database, run on a legacy or a current store, neither removes
\* nor duplicates an entry and leaves every entry's title, category and
\* sequence_day unchanged; run on a store that has the current schema (as
\* after a first run) it changes nothing.
C20_SetupPreservesRows ==
    [][call'.op = "setup_database" =>
          /\ Entries(store') = Entries(store)
          /\ schema = "current" => (store' = store /\ schema' = schema)]_vars

\* C20 witness: setup_database has migrated a legacy store of two entries,
\* which now carry today's date.
C20_Witness ==
    /\ Returned("setup_database")
    /\ Len(store) = 2
    /\ \A i \in DOMAIN store : store[i].day >= 1 /\ store[i].date = today
    /\ \E i \in DOMAIN store : store[i].niche \notin Niches

\* C21: with zero entries logged, get_database_stats returns a total of 0 and
\* an empty per-category breakdown, and it does not raise.
C21_StatsOfEmptyStore ==
    call.op = "get_database_stats" =>
        /\ call.exc = "none"
        /\ (store = <<>> /\ call.fault = "none") => stats = Stats(0, {})

\* C21 witness: get_database_stats has read an empty store.
C21_Witness ==
    /\ Returned("get_database_stats")
    /\ call.fault = "none"
    /\ store = <<>>

C23_RunLogsAboveHistory ==
    call.op = "log_idea" => call.day > HistoricalMax(store, call.niche, today)

\* a step of the run's loop: one item of the batch has been dealt with
ItemStep == run.phase = "logging" /\ run'.phase = "logging" /\ run'.left = run.left - 1

\* C24: an item whose log_idea call returns false does not advance the
\* per-category counter of the run, so that the sequence days logged in one
\* run for one category are consecutive.
C24_FailedLogKeepsCounter ==
    [][(ItemStep /\ call'.op = "log_idea" /\ ~call'.flag)
          => run'.counters = run.counters]_vars

\* C26: an item of a run whose title is stored already (ignoring case) is
\* not passed to log_idea and consumes no sequence day: the per-category
\* counters and the store are the same after the item as before it.
C26_DuplicateItemIsSkipped ==
    [][( /\ ItemStep
         /\ call'.op \in {"check_for_duplication", "log_idea"}
         /\ call'.fault = "none"
         /\ \E i \in DOMAIN store : SqlLower(store[i].title) = SqlLower(Strip(call'.title)) )
          => ( /\ call'.op = "check_for_duplication"
               /\ call'.flag
               /\ run'.counters = run.counters
               /\ store' = store )]_vars

\* C26 witness: the run has found an item's title in the store, after it
\* logged an item of its batch.
C26_Witness ==
    /\ run.phase = "logging"
    /\ Returned("check_for_duplication") /\ call.flag
    /\ \E c \in Niches : run.counters[c] > run.data[c]

\* the run in progress read its counters today and has dealt with k >= 1
\* items of category c, every one of them new and logged
CleanBatch(c) ==
    /\ run.phase = "logging" /\ run.ok /\ run.date = today
    /\ batch[c].k >= 1

\* C25 as written: a run whose k items of category C were all new and all
\* logged has called log_idea with the days n+1 .. n+k, n being its
\* get_current_day(C); when the run ends, exactly one entry exists for
\* (C, today), holding the last item's title and the sequence_day n+k.
C25_LastItemAsPassed ==
    \A c \in Niches :
        (CleanBatch(c) /\ run.left = 0) =>
            LET rows == SelectToday(store, c, today)
            IN  /\ Len(rows) = 1
                /\ rows[1].title = batch[c].last
                /\ rows[1].day = run.data[c] + batch[c].k

\* C25: the same, the entry holding the last item's title without its
\* leading and trailing whitespace.
C25_BatchCollapsesToLast ==
    \A c \in Niches :
        CleanBatch(c) =>
            /\ run.counters[c] = run.data[c] + batch[c].k
            /\ (call.op = "log_idea" /\ call.niche = c)
                   => call.day = run.data[c] + batch[c].k
            /\ run.left = 0 =>
                   LET rows == SelectToday(store, c, today)
                   IN  /\ Len(rows) = 1
                       /\ rows[1].title = Strip(batch[c].last)
                       /\ rows[1].day = run.data[c] + batch[c].k

\* C25 witness: a run has logged three new items of one category, the last
\* of them with a padded title, and its loop is over.
C25_Witness ==
    \E c \in Niches :
        /\ CleanBatch(c) /\ run.left = 0
        /\ batch[c].k = 3
        /\ batch[c].last # Strip(batch[c].last)

\* C27: when get_current_day failed at the start of a generation run, the
\* run logs no entry: it does not go on to call log_idea with a default day.
C27_FailedReadAbortsRun ==
    [][(ItemStep /\ ~run.ok) => (call'.op # "log_idea" /\ store' = store)]_vars

\* C28: when log_idea returns false for one item of a run, the run is not
\* aborted: it goes on with the next item of the batch, every later item
\* still to be processed.
C28_FailedLogKeepsBatch ==
    [][( /\ run.phase = "logging" /\ run.left > 0 /\ run' # run
         /\ call'.op = "log_idea" /\ ~call'.flag )
          => (run'.phase = "logging" /\ run'.left = run.left - 1)]_vars

\* C28 witness: after a log_idea of the run returned false for an item of a
\* category, the run has logged a later item of that category.
C28_Witness ==
    \E c \in Niches :
        /\ run.phase = "logging"
        /\ batch[c].k = -1
        /\ Returned("log_idea") /\ call.flag /\ call.niche = c
        /\ call.day >= run.data[c] + 2

\* C29: once log_idea(t, _, _) has returned true, every later
\* check_for_duplication(t) returns true, whatever log_idea calls happen in
\* between.  Every stored title was logged by a log_idea that returned true,
\* and check_for_duplication answers from the store alone: the claim is that
\* no step takes a title away from what check_for_duplication finds.
C29_LoggedTitleStaysFound ==
    [][\A i \in DOMAIN store : CheckForDuplication(store', store[i].title)]_vars

\* an entry written before generation_date existed
IsLegacy(r) == \E l \in LegacyRows : l.title = r.title /\ l.niche = r.niche /\ l.day = r.day

\* C30: after setup_database has backfilled the date of the legacy entries,
\* no log_idea call deletes a legacy entry logged for an earlier sequence day
\* of the same category: the legacy entries of a category persist when a new
\* idea is logged for it, also on the day of the migration.
C30_LegacyEntriesPersist ==
    [][call'.op = "log_idea" =>
          \A i \in DOMAIN store :
              ( /\ IsLegacy(store[i]) /\ store[i].date # NoDate
                /\ store[i].niche = Strip(call'.niche)
                /\ store[i].day < call'.day )
              => \E j \in DOMAIN store' : store'[j] = store[i]]_vars

C32_OneActiveSessionPerUser ==
    \A u \in AuthUsers :
        Cardinality({i \in DOMAIN sessions :
                        sessions[i].user = u /\ sessions[i].active}) <= 1

\* C32 witness: a create_session has returned the second session of a user
\* who had one, created a session's life or more before it.
C32_Witness ==
    /\ scall.op = "create_session" /\ scall.ok
    /\ scall.sid = 2
    /\ sessions[1].user = scall.user
    /\ sessions[2].active
    /\ sessions[1].expires < sessions[2].expires

\* C33: a session that was logged out with logout_user, superseded by a
\* later create_session of its user, or found expired by verify_session is
\* never accepted again: every later verify_session of its id returns
\* invalid.
C33_RevokedNeverAccepted ==
    (scall.op = "verify_session" /\ scall.ok) => scall.sid \notin revoked

\* C34: after MAX_LOGIN_ATTEMPTS failed logins in a row for a username, a
\* login for that username made before LOCKOUT_DURATION minutes have passed
\* is rejected, also with the right password.
C34_LockoutEnforced ==
    [][( /\ scall'.op = "authenticate_user"
         /\ lnow' = lnow
         /\ <<scall, login>>' # <<scall, login>>
         /\ login[scall'.user].n >= MAX_LOGIN_ATTEMPTS
         /\ lnow < login[scall'.user].at + LOCKOUT_DURATION )
          => ~scall'.ok]_vars

\* C35: accept_team_invitation adds the user to the team only when the
\* token names a pending invitation that has not expired and whose
\* invited_email is the email of the user's account; the user then becomes
\* a member with the role and permissions of the invitation and the
\* invitation becomes 'accepted', for good, so that a second accept with the
\* token fails; a failing accept changes neither team_members nor
\* team_invitations.
C35_AcceptOnlyInvited ==
    /\ [][( /\ tcall'.op = "accept_team_invitation" /\ tnow' = tnow
            /\ tcall'.ok )
           => LET k == tcall'.ref
                  u == tcall'.user
              IN  /\ k \in DOMAIN invitations
                  /\ invitations[k].status = "pending"
                  /\ invitations[k].expires >= tnow
                  /\ u \in TeamUsers /\ EmailOf[u] = invitations[k].email
                  /\ ~\E m \in members : m.team = invitations[k].team /\ m.user = u
                  /\ members' = members \cup
                        {[team |-> invitations[k].team, user |-> u,
                          role |-> invitations[k].role,
                          permissions |-> invitations[k].permissions,
                          active |-> TRUE]}
                  /\ invitations' = [invitations EXCEPT ![k].status = "accepted"]]_vars
    /\ [][( /\ tcall'.op = "accept_team_invitation" /\ tnow' = tnow
            /\ ~tcall'.ok )
           => (members' = members /\ invitations' = invitations)]_vars
    /\ [][\A k \in DOMAIN invitations :
              invitations[k].status = "accepted"
              => (k \in DOMAIN invitations' /\ invitations'[k].status = "accepted")]_vars

\* C35 witness: the invited user, who accepted the invitation, has tried to
\* accept it a second time and failed, after some other account had tried.
C35_Witness ==
    /\ tcall.op = "accept_team_invitation" /\ ~tcall.ok
    /\ tcall.ref \in DOMAIN invitations
    /\ invitations[tcall.ref].status = "accepted"
    /\ EmailOf[tcall.user] = invitations[tcall.ref].email
    /\ \E m \in members : /\ m.team = invitations[tcall.ref].team
                          /\ m.user = tcall.user
                          /\ m.role = invitations[tcall.ref].role

\* C36: in every reachable state the active members of a team are at most
\* the max_members the team was created with.
C36_MembersWithinCap ==
    \A t \in DOMAIN teams :
        Cardinality({m \in members : m.team = t /\ m.active}) <= teams[t].max_members

\* C37: when every pending invitation for (team, email) has expired, an
\* invite_team_member for that team and email by an active member with the
\* invite permission succeeds (the email being no member's).
C37_ExpiredInvitationDoesNotBlock ==
    [][( /\ tcall'.op = "invite_team_member" /\ tnow' = tnow
         /\ \E m \in members : /\ m.team = tcall'.team /\ m.user = tcall'.user
                               /\ m.active /\ "invite" \in m.permissions
         /\ ~\E m \in members : /\ m.team = tcall'.team /\ m.active
                                /\ EmailOf[m.user] = tcall'.email
         /\ \E i \in DOMAIN invitations :
                /\ invitations[i].team = tcall'.team
                /\ invitations[i].email = tcall'.email
                /\ invitations[i].status = "pending"
         /\ \A i \in DOMAIN invitations :
                ( /\ invitations[i].team = tcall'.team
                  /\ invitations[i].email = tcall'.email
                  /\ invitations[i].status = "pending" )
                => invitations[i].expires < tnow )
          => tcall'.ok]_vars

\* C38: every successful create_team, invite_team_member,
\* accept_team_invitation, create_team_project and share_generation_to_team
\* call adds exactly one row to team_activity, for its team and its user.
C38_SuccessRecordsActivity ==
    [][( /\ tcall'.op \in {"create_team", "invite_team_member",
                           "accept_team_invitation", "create_team_project",
                           "share_generation_to_team"}
         /\ tcall'.ok /\ tnow' = tnow )
          => /\ Len(activity') = Len(activity) + 1
             /\ activity'[Len(activity')].team = tcall'.team
             /\ activity'[Len(activity')].user = tcall'.user]_vars

\* C39: every shared generation stored was shared by an active member of
\* its team, into a project of that team.
C39_SharedOnlyByMembers ==
    \A i \in DOMAIN shared :
        /\ \E m \in members : /\ m.team = shared[i].team
                              /\ m.user = shared[i].by /\ m.active
        /\ shared[i].project \in DOMAIN projects
        /\ projects[shared[i].project].team = shared[i].team

====
